---- MODULE Spec2Model ----
(***************************************************************************)
(* The browser-automation path of the SmugMug client selection tool:       *)
(* SmugMugWebScraper.scrape_gallery_comments and the helpers it calls      *)
(* (src/src/smugmug_web_scraper.py).                                       *)
(*                                                                         *)
(* Text is a sequence of tokens.  A token stands for a run of characters:  *)
(* a word, a file extension with its dot, a separator, a line break.       *)
(* The output file is the sequence of its lines, as a reader sees it.      *)
(*                                                                         *)
(* Failure model: an automation or file call may raise exactly where the   *)
(* code encloses it in a try block (the code provides for its failure).    *)
(* Calls outside every try block (the screenshot of the top-level handler, *)
(* browser.close in the finally clause) are taken to succeed.              *)
(*                                                                         *)
(* The second script of the tool, the REST client of                       *)
(* src/src/smugmug-client.py with load_credentials of src/src/config.py,   *)
(* is modelled next to it.  One run of the tool is a run of one of the two *)
(* scripts: a step of one script is taken only while the other has not     *)
(* started.                                                                *)
(***************************************************************************)
EXTENDS Integers, Sequences, FiniteSets, TLC

VARIABLES
    pc,                \* position in scrape_gallery_comments
    scroll_attempts,   \* local of the lazy-load loop
    last_count,        \* local of the lazy-load loop
    reads,             \* number of count reads the loop has made
    gallerySize,       \* number of images the lightbox cycles through
    image_elements,    \* the deduplicated element list
    i,                 \* loop position of the walk, 1-based (the code's i + 1)
    displayed,         \* position the lightbox shows, 0 outside the lightbox
    page,              \* the detail view currently rendered
    comments_found,    \* result of extract_image_comments in this iteration
    commented_images,  \* self.commented_images
    file,              \* lines of self.output_file
    result,            \* value returned by scrape_gallery_comments
    browser,           \* "open" or "closed"
    closes,            \* number of browser.close() calls
    screenshots,       \* the screenshots taken
    shown,             \* the detail views extraction has been run on
    faults,            \* number of calls that have raised so far
    log,               \* what the run has printed about its own progress
    \* the REST client (smugmug-client.py, config.py)
    api_pc,            \* position in main() of smugmug-client.py
    env,               \* os.environ after load_dotenv, read by load_credentials
    credentials,       \* self.credentials
    exception,         \* the exception that has reached main()'s handler
    album,             \* number of images of the selected album on the server
    images,            \* local of get_album_images, then album_images
    start,             \* local of get_album_images
    position,          \* images of album_images the loop has gone through
    comments,          \* local of process_album_for_comments
    album_commented,   \* commented_images of process_album_for_comments
    report,            \* lines of the file save_results writes
    requests           \* the requests made so far, with their outcome

scraperVars ==
    <<pc, scroll_attempts, last_count, reads, gallerySize, image_elements,
      i, displayed, page, comments_found, commented_images, file, result,
      browser, closes, screenshots, shown, faults, log>>

clientVars ==
    <<api_pc, env, credentials, exception, album, images, start, position,
      comments, album_commented, report, requests>>

vars == <<scraperVars, clientVars>>

\* a step of the scraper: the client has not started and stays so
ClientNotStarted == api_pc = "start" /\ UNCHANGED clientVars

\* a step of the client: the scraper has not started and stays so
ScraperNotStarted == pc = "goto" /\ UNCHANGED scraperVars

----------------------------------------------------------------------------
\* Bounds of the model.

\* largest gallery (number of tiles in the grid, images in the lightbox)
MaxN == 3
\* largest element count the lazy-load loop reads
MaxCount == 2
\* the lazy-load loop is followed for at most this many count reads
MaxReads == 22
\* at most this many calls raise in one run
MaxFaults == 2

\* Program constants.
max_scroll_attempts == 20
\* line 119: `if scroll_attempts >= 3`
StableTries == 3
MaxFilenameTextLen == 100
BottomAreaY == 400
MinBlockLen == 10

----------------------------------------------------------------------------
\* Text.

SepTokens == {"/", "\\", ":"}
ExtTokens == {".jpg", ".png"}
SpaceTokens == {" ", "nl"}

\* tokens whose lower-cased characters contain 'clair polleti', 'clair' or
\* 'polleti' (target_names)
NameTokens == {"Clair", "Polleti", "clair", "Sinclair"}

\* number of characters a token stands for
Width(tok) ==
    CASE tok = "Clair" -> 5
      [] tok = "clair" -> 5
      [] tok = "Polleti" -> 7
      [] tok = "Sinclair" -> 8
      [] tok = " " -> 1
      [] tok = "nl" -> 1
      [] tok = "great shot" -> 10
      [] tok = "ok" -> 2
      [] tok = "caption" -> 100
      [] OTHER -> 4

RECURSIVE TextLen(_)
TextLen(t) == IF t = <<>> THEN 0 ELSE Width(Head(t)) + TextLen(Tail(t))

\* any(name in text.lower() for name in target_names)
HasTargetName(t) == \E k \in 1..Len(t) : t[k] \in NameTokens

\* str.strip()
RECURSIVE LStrip(_)
LStrip(t) ==
    IF t # <<>> /\ Head(t) \in SpaceTokens THEN LStrip(Tail(t)) ELSE t

RECURSIVE RStrip(_)
RStrip(t) ==
    IF t # <<>> /\ t[Len(t)] \in SpaceTokens
    THEN RStrip(SubSeq(t, 1, Len(t) - 1))
    ELSE t

Strip(t) == RStrip(LStrip(t))

\* str.split('\n'): the lines of a text
RECURSIVE SplitLines(_)
SplitLines(t) ==
    IF \E k \in 1..Len(t) : t[k] = "nl"
    THEN LET k == CHOOSE j \in 1..Len(t) :
                     t[j] = "nl" /\ \A m \in 1..(j - 1) : t[m] # "nl"
         IN  <<SubSeq(t, 1, k - 1)>> \o SplitLines(SubSeq(t, k + 1, Len(t)))
    ELSE <<t>>

RECURSIVE Flatten(_)
Flatten(ss) == IF ss = <<>> THEN <<>> ELSE Head(ss) \o Flatten(Tail(ss))

\* re.search(r'([^/\\:]*\.(jpg|jpeg|png|...))', t, re.IGNORECASE).group(1),
\* <<>> when there is no match.  The leftmost match wins; the negated class
\* is greedy, takes line breaks and spaces, and backs off to the last
\* extension of its run.
RunEnd(t, s) ==
    IF \E k \in s..Len(t) : t[k] \in SepTokens
    THEN (CHOOSE k \in s..Len(t) :
              t[k] \in SepTokens /\ \A m \in s..(k - 1) : t[m] \notin SepTokens) - 1
    ELSE Len(t)

MatchAt(t, s) ==
    LET e == RunEnd(t, s)
        exts == {k \in s..e : t[k] \in ExtTokens}
    IN  IF exts = {} THEN <<>>
        ELSE SubSeq(t, s, CHOOSE k \in exts : \A m \in exts : m <= k)

FilenameMatch(t) ==
    LET starts == {s \in 1..Len(t) : MatchAt(t, s) # <<>>}
    IN  IF starts = {} THEN <<>>
        ELSE MatchAt(t, CHOOSE s \in starts : \A m \in starts : s <= m)

\* re.search(r'/([^/]*\.(jpg|...))', img_src, re.IGNORECASE).group(1)
SrcRunEnd(t, s) ==
    IF \E k \in s..Len(t) : t[k] = "/"
    THEN (CHOOSE k \in s..Len(t) :
              t[k] = "/" /\ \A m \in s..(k - 1) : t[m] # "/") - 1
    ELSE Len(t)

SrcMatchAt(t, s) ==
    LET e == SrcRunEnd(t, s + 1)
        exts == {k \in (s + 1)..e : t[k] \in ExtTokens}
    IN  IF t[s] # "/" \/ exts = {} THEN <<>>
        ELSE SubSeq(t, s + 1, CHOOSE k \in exts : \A m \in exts : m <= k)

SrcFilenameMatch(t) ==
    LET starts == {s \in 1..Len(t) : SrcMatchAt(t, s) # <<>>}
    IN  IF starts = {} THEN <<>>
        ELSE SrcMatchAt(t, CHOOSE s \in starts : \A m \in starts : s <= m)

----------------------------------------------------------------------------
\* The detail view of one image, as the automation library reports it.
\*   text      document.body.innerText
\*   elems     the elements the comment selectors can find, in document
\*             order: the selectors each matches, its inner text, whether
\*             reading its text raises, whether it is stale by the time
\*             its text is read again (the second read raises)
\*   overlays  inner text of the element found by each overlay selector that
\*             finds one, in selector order
\*   lower     the div, span and p elements: inner text and vertical position
\*   title, urlToken, imgSrc   page title, token after /i- in the URL ("" if
\*             none), src of the first smugmug image (<<>> if none)
\*   blocks    how many comment blocks of the reviewer the image really has

NumSelectors == 11
TextSearch == 0

NoPage ==
    [text |-> <<>>, elems |-> <<>>, overlays |-> <<>>, lower |-> <<>>,
     title |-> <<>>, urlToken |-> "", imgSrc |-> <<>>, blocks |-> 0]

\* no comment, the overlay shows the file name
PageNoName ==
    [NoPage EXCEPT !.text = <<"Title", "nl", "a", ".jpg">>,
                   !.overlays = << <<"a", ".jpg">> >>]

\* one comment block of class sm-comment (selectors 4 and 6 find it)
PageBlock ==
    [NoPage EXCEPT !.text = <<"Clair", " ", "Polleti", " ", "great shot", "nl",
                              "b", ".jpg">>,
                   !.elems = << [sels |-> {4, 6},
                                 text |-> <<"Clair", " ", "Polleti", " ",
                                            "great shot", "nl">>,
                                 raises |-> FALSE, stale |-> FALSE] >>,
                   !.overlays = << <<"b", ".jpg">> >>,
                   !.blocks = 1]

\* one comment that no selector finds; no overlay, the URL carries /i-Abc
PageTextOnly ==
    [NoPage EXCEPT !.text = <<"Title", "nl", " ", "Clair", " ", "great shot">>,
                   !.urlToken = "Abc",
                   !.blocks = 1]

\* the name occurs in a short caption only
PageShort ==
    [NoPage EXCEPT !.text = <<"Clair", " ", "ok">>,
                   !.overlays = << <<"a", ".jpg">> >>]

\* one comment block; the overlay shows the title above the file name
PageMultiline ==
    [NoPage EXCEPT !.text = <<"Clair", " ", "great shot", "nl", "Title", "nl",
                              "a", ".jpg">>,
                   !.elems = << [sels |-> {1, 4, 6},
                                 text |-> <<"Clair", " ", "great shot">>,
                                 raises |-> FALSE, stale |-> FALSE] >>,
                   !.overlays = << <<"Title", "nl", "a", ".jpg">> >>,
                   !.blocks = 1]

\* the detail views above
Pages == {PageNoName, PageBlock, PageTextOnly, PageShort, PageMultiline}

\* elements the comment selectors can find
CommentElements ==
    {[sels |-> {1, 4, 6}, text |-> <<"Clair", " ", "great shot">>,
      raises |-> FALSE, stale |-> FALSE],
     [sels |-> {4}, text |-> <<" ", "Polleti", " ", "nice", "nl">>,
      raises |-> FALSE, stale |-> FALSE],
     [sels |-> {2}, text |-> <<"Title">>,
      raises |-> FALSE, stale |-> FALSE],
     [sels |-> {1}, text |-> <<"Clair", " ", "ok">>,
      raises |-> TRUE, stale |-> FALSE],
     [sels |-> {4, 6}, text |-> <<"Sinclair", " ", "ok">>,
      raises |-> FALSE, stale |-> TRUE]}

\* at most this many of them on one page
MaxElems == 2

ElemLists == UNION {[1..n -> CommentElements] : n \in 0..MaxElems}

\* page texts: without the name; the name in a line of 10 characters; a
\* padded line of 12 characters with the name between two lines that are
\* dropped; two lines that are kept
PageTexts ==
    {<<"Title", "nl", "a", ".jpg">>,
     <<"Clair", " ", "nice">>,
     <<"Title", "nl", " ", "Polleti", " ", "nice", " ", "nl", "Clair", " ",
       "ok">>,
     <<"Clair", " ", "great shot", "nl", "Sinclair", " ", "great shot">>}

\* the detail views extraction is studied on: any of the texts with any of
\* the element lists (an element that is not rendered is found by its
\* selector and is no part of the page text)
ExtractPages ==
    {[NoPage EXCEPT !.text = t, !.elems = es,
                    !.overlays = << <<"a", ".jpg">> >>] :
        t \in PageTexts, es \in ElemLists}

\* the detail views the lightbox shows during the walk
WalkPages == {PageNoName, PageBlock, PageShort, PageMultiline}

\* what the file name resolver can find on a page
OverlayLists ==
    {<<>>,
     << <<"foo", ".jpg">> >>,
     << <<"Title">>, <<"b", ".png">> >>,
     << <<"Title", "nl", "a", ".jpg">> >>}

LowerLists ==
    {<<>>,
     << [text |-> <<"c", ".jpg">>, y |-> 400] >>,
     << [text |-> <<"caption", " ", "x", ".jpg">>, y |-> 500],
        [text |-> <<"c", ".jpg">>, y |-> 500] >>}

Titles == {<<>>, <<"SmugMug">>, <<"d", ".jpg">>}

UrlTokens == {"", "Abc"}

ImgSrcs ==
    {<<>>,
     <<"https", ":", "/", "/", "photos", "/", "e", ".jpg">>,
     <<"https", ":", "/", "/", "photos", "/", "thumb">>}

\* the detail views the file name resolver is studied on: one comment that
\* no selector finds, with any combination of the above
FilenamePages ==
    {[PageTextOnly EXCEPT !.overlays = os, !.lower = ls, !.title = ti,
                          !.urlToken = u, !.imgSrc = src] :
        os \in OverlayLists, ls \in LowerLists, ti \in Titles,
        u \in UrlTokens, src \in ImgSrcs}

\* every detail view of the model
DetailPages == Pages \cup ExtractPages \cup FilenamePages

\* a page of the end-to-end fixture: either the name occurs nowhere, or the
\* image has exactly one comment block of the reviewer
IsFixturePage(p) ==
    \/ p.blocks = 0 /\ ~HasTargetName(p.text)
    \/ p.blocks = 1

----------------------------------------------------------------------------
\* extract_image_comments

Comment(text, sel) ==
    [author |-> "Clair Polleti", text |-> text, timestamp |-> "",
     selector_used |-> sel]

\* the elements a selector finds whose text carries the name (lines 283-293)
MatchingElements(p, sel) ==
    SelectSeq(p.elems,
              LAMBDA e : sel \in e.sels /\ ~e.raises /\ e.text # <<>>
                         /\ HasTargetName(e.text))

\* the loop of lines 282-295 without its break: the last selector with a
\* matching element wins
FoundSelector_Last(p) ==
    LET hits == {s \in 1..NumSelectors : MatchingElements(p, s) # <<>>}
    IN  IF hits = {} THEN TextSearch
        ELSE CHOOSE s \in hits : \A m \in hits : s >= m

\* lines 279-295: the first selector with a matching element wins
FoundSelector(p) ==
    LET hits == {s \in 1..NumSelectors : MatchingElements(p, s) # <<>>}
    IN  IF hits = {} THEN TextSearch
        ELSE CHOOSE s \in hits : \A m \in hits : s <= m

\* lines 297-312: the text of each element found is read again; an element
\* whose second read raises is passed over
StructuredComments(p) ==
    LET sel == FoundSelector(p)
        found == IF sel = TextSearch THEN <<>> ELSE MatchingElements(p, sel)
        es == SelectSeq(found, LAMBDA e : ~e.stale /\ HasTargetName(e.text))
    IN  [k \in 1..Len(es) |-> Comment(Strip(es[k].text), sel)]

\* lines 315-328
TextSearchComments(p) ==
    LET blocks == SplitLines(p.text)
        stripped == [k \in 1..Len(blocks) |-> Strip(blocks[k])]
        kept == SelectSeq(stripped,
                          LAMBDA b : b # <<>> /\ TextLen(b) > MinBlockLen
                                     /\ HasTargetName(b))
    IN  [k \in 1..Len(kept) |-> Comment(kept[k], TextSearch)]

\* extract_image_comments without the test of line 261 on the page text
extract_image_comments_Unfiltered(p) ==
    IF StructuredComments(p) # <<>>
    THEN StructuredComments(p)
    ELSE TextSearchComments(p)

\* lines 248-339
extract_image_comments(p) ==
    IF HasTargetName(p.text)
    THEN IF StructuredComments(p) # <<>>
         THEN StructuredComments(p)
         ELSE TextSearchComments(p)
    ELSE <<>>

----------------------------------------------------------------------------
\* get_image_filename

\* the empty string in place of the placeholder
Placeholder_Empty == <<>>

\* lines 410 and 414: 'Unknown_' and the time of day
Placeholder == <<"Unknown_", "HHMMSS">>

\* Method 1, lines 359-368: the first overlay whose text matches
OverlayFilename(p) ==
    LET hits == SelectSeq(p.overlays,
                          LAMBDA t : t # <<>> /\ FilenameMatch(t) # <<>>)
    IN  IF hits = <<>> THEN <<>> ELSE FilenameMatch(Head(hits))

\* Method 2, lines 372-385: the first short text in the lower area that matches
LowerTextFilename(p) ==
    LET hits == SelectSeq(p.lower,
                          LAMBDA e : /\ e.text # <<>>
                                     /\ TextLen(e.text) < MaxFilenameTextLen
                                     /\ FilenameMatch(e.text) # <<>>
                                     /\ e.y > BottomAreaY)
    IN  IF hits = <<>> THEN <<>> ELSE FilenameMatch(Head(hits).text)

\* Method 3, lines 388-393
TitleFilename(p) ==
    IF p.title # <<>> /\ p.title # <<"SmugMug">> THEN FilenameMatch(p.title)
    ELSE <<>>

\* Method 4, lines 396-399
UrlFilename(p) == IF p.urlToken # "" THEN <<"Image_", p.urlToken>> ELSE <<>>

\* Method 5, lines 402-408
SrcFilename(p) == SrcFilenameMatch(p.imgSrc)

get_image_filename(p) ==
    IF OverlayFilename(p) # <<>> THEN OverlayFilename(p)
    ELSE IF LowerTextFilename(p) # <<>> THEN LowerTextFilename(p)
    ELSE IF TitleFilename(p) # <<>> THEN TitleFilename(p)
    ELSE IF UrlFilename(p) # <<>> THEN UrlFilename(p)
    ELSE IF SrcFilename(p) # <<>> THEN SrcFilename(p)
    ELSE Placeholder

----------------------------------------------------------------------------
\* The gallery grid.  Every image of the gallery has a tile; a tile carries
\* link elements (a[href*="/i-"]) and image elements.  An element is known by
\* the image it belongs to and by the variant of its URL: two links to one
\* image may differ in their path, two thumbnails of one image differ in
\* their size segment.

Link(k, v) == [tag |-> "a", img |-> k, href |-> <<"href", k, v>>, src |-> <<>>,
               raises |-> FALSE]
Img(k, v) == [tag |-> "img", img |-> k, href |-> <<>>, src |-> <<"src", k, v>>,
              raises |-> FALSE]

TileKinds == {"link", "link+img", "link twice", "two links", "img",
              "two sizes", "img no src", "stale link"}

Tile(kind, k) ==
    CASE kind = "link" -> <<Link(k, 1)>>
      [] kind = "link+img" -> <<Link(k, 1), Img(k, 1)>>
      [] kind = "link twice" -> <<Link(k, 1), Link(k, 1)>>
      [] kind = "two links" -> <<Link(k, 1), Link(k, 2)>>
      [] kind = "img" -> <<Img(k, 1)>>
      [] kind = "two sizes" -> <<Img(k, 1), Img(k, 2)>>
      [] kind = "img no src" -> <<[Img(k, 1) EXCEPT !.src = <<>>]>>
      [] kind = "stale link" -> <<[Link(k, 1) EXCEPT !.raises = TRUE]>>

\* a gallery: its size and the kind of each tile
Galleries(kinds) == UNION {{<<n, f>> : f \in [1..n -> kinds]} : n \in 0..MaxN}

DomOf(g) == Flatten([k \in 1..g[1] |-> Tile(g[2][k], k)])

\* every grid of the enumeration
AllGalleries == Galleries(TileKinds)

\* the grids of the walk: every tile a link, every tile an image,
\* or every tile an image that has no src yet
WalkGalleries ==
    Galleries({"link"}) \cup Galleries({"img"}) \cup Galleries({"img no src"})

\* lines 134-140: links are preferred, images are the fallback
CandidateElements(dom) ==
    LET link_elements == SelectSeq(dom, LAMBDA e : e.tag = "a")
    IN  IF link_elements = <<>>
        THEN SelectSeq(dom, LAMBDA e : e.tag = "img")
        ELSE link_elements

\* the key an element is deduplicated by (lines 149-158), <<>> if it has none
KeyOf(e) == IF e.href # <<>> THEN e.href ELSE e.src

\* lines 143-162
RECURSIVE Deduplicate(_, _, _)
Deduplicate(elements, unique_elements, seen_urls) ==
    IF elements = <<>> THEN unique_elements
    ELSE LET element == Head(elements)
             keep == /\ ~element.raises
                     /\ KeyOf(element) # <<>>
                     /\ KeyOf(element) \notin seen_urls
         IN  IF keep
             THEN Deduplicate(Tail(elements), Append(unique_elements, element),
                              seen_urls \cup {KeyOf(element)})
             ELSE Deduplicate(Tail(elements), unique_elements, seen_urls)

UniqueElements(dom) == Deduplicate(CandidateElements(dom), <<>>, {})

----------------------------------------------------------------------------
\* The output file.

Rule == <<"==================================================">>
Blank == <<>>

\* _setup_output_file, lines 39-45
Header ==
    << <<"Images with Comments - Dragonhood (Web Scrape)">>,
       <<"Generated: ">>,
       <<"Gallery URL: ">>,
       Rule,
       <<"LIVE RESULTS (written as found):">>,
       Rule,
       Blank >>

\* the lines f.write(text + "\n") adds to a file that ends with a line break
WriteLn(text) == SplitLines(text)

Digits == <<"0", "1", "2", "3", "4", "5", "6", "7", "8", "9">>
NumStr(n) == IF n < 10 THEN Digits[n + 1] ELSE "many"

\* lines 432-440 for one item
RECURSIVE CommentLines(_)
CommentLines(cs) ==
    IF cs = <<>> THEN <<>>
    ELSE WriteLn(<<"  - ", Head(cs).author, ": ">> \o Head(cs).text)
         \o CommentLines(Tail(cs))

ItemLines(item) ==
    WriteLn(<<"File: ">> \o item.filename)
    \o << <<"Comments (", NumStr(Len(item.comments)), "):">> >>
    \o CommentLines(item.comments)
    \o <<Blank>>

RECURSIVE DetailLines(_)
DetailLines(items) ==
    IF items = <<>> THEN <<>>
    ELSE ItemLines(Head(items)) \o DetailLines(Tail(items))

\* FinalBlock with its two parts exchanged: the details, then the summary
FinalBlock_DetailsFirst(items) ==
    << Blank, Rule, <<"COMMENT DETAILS:">>, Rule, Blank >>
    \o DetailLines(items)
    \o << Blank, Rule, <<"FINAL SUMMARY:">>, Rule,
          <<"Total: ", NumStr(Len(items)), " images with comments">>,
          <<"Scan completed: ">> >>

\* _finalize_output_file, lines 420-440
FinalBlock(items) ==
    << Blank, Rule, <<"FINAL SUMMARY:">>, Rule,
       <<"Total: ", NumStr(Len(items)), " images with comments">>,
       <<"Scan completed: ">>,
       Blank, Rule, <<"COMMENT DETAILS:">>, Rule, Blank >>
    \o DetailLines(items)

----------------------------------------------------------------------------
\* config.py: load_credentials

\* Python's None, where an object is expected
None == [None |-> TRUE]

\* what os.getenv gives for a variable that is not set (None)
Unset == "<unset>"

CredentialKeys ==
    <<"consumer_key", "consumer_secret", "oauth_token", "oauth_secret">>

\* what os.getenv gives for one variable
EnvValues == {Unset, "", "k3y"}

Environments == [{CredentialKeys[k] : k \in 1..Len(CredentialKeys)} -> EnvValues]

\* the environment before load_dotenv has run
NoEnv == [key \in {CredentialKeys[k] : k \in 1..Len(CredentialKeys)} |-> Unset]

\* the truth value of a str or None
Truthy(value) == value # Unset /\ value # ""

\* lines 27-28 with a test for None in place of the truth value
missing_creds_UnsetOnly(e) ==
    SelectSeq(CredentialKeys, LAMBDA key : e[key] = Unset)

\* lines 27-28
missing_creds(e) == SelectSeq(CredentialKeys, LAMBDA key : ~Truthy(e[key]))

\* ', '.join(names)
RECURSIVE Join(_)
Join(names) ==
    IF Len(names) <= 1 THEN names
    ELSE <<Head(names), ", ">> \o Join(Tail(names))

\* lines 19-31: the message of the error the call raises (<<>> if it raises
\* nothing) and what it returns
load_credentials(e) ==
    IF missing_creds(e) # <<>>
    THEN [raises |-> <<"Missing required credentials: ">> \o Join(missing_creds(e)),
          returns |-> None]
    ELSE [raises |-> <<>>, returns |-> e]

----------------------------------------------------------------------------
\* smugmug-client.py: the REST client

\* largest album on the server
MaxAlbum == 3
\* the batch size of get_album_images (line 90), scaled down from 100
count == 2

\* how session.get and raise_for_status end
Outcomes == {"ok", "http error"}

\* an exception travelling up the call stack, as a value
Raised == [Raised |-> TRUE]

\* make_request with no except clause: the failure travels up
make_request_Raising(outcome, json) == IF outcome = "ok" THEN json ELSE Raised

\* lines 52-63: the decoded body, or None when the request failed
make_request(outcome, json) == IF outcome = "ok" THEN json ELSE None

\* `not response or 'Response' not in response`
NoData(response) ==
    IF response = None THEN TRUE ELSE "Response" \notin DOMAIN response

\* dict.get(key, default)
Get(d, key, default) == IF key \in DOMAIN d THEN d[key] ELSE default

\* a body without the Response wrapper
ErrorBody == [Message |-> "Not Found"]

\* what the server holds: image k of the album has key k
Batch(n, s) ==
    LET len == IF n - s + 1 < count THEN n - s + 1 ELSE count
    IN  [k \in 1..len |-> [ImageKey |-> s + k - 1]]

ImagesBody(n, s) ==
    IF Batch(n, s) = <<>> THEN [Response |-> [Pages |-> "none"]]
    ELSE [Response |-> [AlbumImage |-> Batch(n, s)]]

ServerComments ==
    {<<>>,
     << [Name |-> "Clair Polleti", Text |-> "love it", Date |-> "2024-05-01"],
        [Text |-> "crop tighter"] >>}

CommentsBody(cs) ==
    IF cs = <<>> THEN [Response |-> [Pages |-> "none"]]
    ELSE [Response |-> [Comment |-> cs]]

ServerFileName(image_key) == <<"IMG_", Digits[image_key + 1], ".jpg">>

\* the detail record of an image, with or without its FileName
DetailsBody(image_key, named) ==
    IF named
    THEN [Response |-> [Image |-> [ImageKey |-> image_key,
                                   FileName |-> ServerFileName(image_key)]]]
    ELSE [Response |-> [Image |-> [ImageKey |-> image_key]]]

\* lines 165-173: the entry of one commented image
Entry(image_key, image_details, cs) ==
    [filename |-> Get(image_details, "FileName",
                      <<"Image_", Digits[image_key + 1]>>),
     image_key |-> image_key,
     comment_count |-> Len(cs),
     comments |-> cs]

\* save_results, lines 210-222, for one item
RECURSIVE ClientCommentLines(_)
ClientCommentLines(cs) ==
    IF cs = <<>> THEN <<>>
    ELSE LET comment == Head(cs)
             date == Get(comment, "Date", "")
         IN  << <<"  - ", Get(comment, "Name", "Anonymous"), ": ",
                  Get(comment, "Text", "")>> >>
             \o (IF date # "" THEN << <<"    ", date>> >> ELSE <<>>)
             \o ClientCommentLines(Tail(cs))

ClientItemLines(item) ==
    << <<"File: ">> \o item.filename,
       <<"Comments (", NumStr(item.comment_count), "):">> >>
    \o ClientCommentLines(item.comments)
    \o <<Blank>>

RECURSIVE ClientDetailLines(_)
ClientDetailLines(items) ==
    IF items = <<>> THEN <<>>
    ELSE ClientItemLines(Head(items)) \o ClientDetailLines(Tail(items))

\* save_results, lines 196-198
ClientHeader ==
    << <<"Images with Comments - ", "album_name">>, <<"Generated: ">>, Rule,
       Blank >>

\* save_results, lines 196-222: the lines of the file
ReportLines(items) ==
    ClientHeader
    \o [k \in 1..Len(items) |-> items[k].filename]
    \o << Blank, <<"Total: ", NumStr(Len(items)), " images with comments">>,
          Blank, Rule, <<"COMMENT DETAILS:">>, Rule, Blank >>
    \o ClientDetailLines(items)

\* the client before main() runs
ClientInit ==
    /\ api_pc = "start"
    /\ env = NoEnv
    /\ credentials = None
    /\ exception = <<>>
    /\ album = 0
    /\ images = <<>>
    /\ start = 1
    /\ position = 0
    /\ comments = <<>>
    /\ album_commented = <<>>
    /\ report = <<>>
    /\ requests = {}

----------------------------------------------------------------------------
\* What the run prints about itself.

NoLog ==
    [counts |-> <<>>,         \* "Scroll attempt n: Found c images", the
                              \* last four of them
     enumerated |-> FALSE,    \* "Total UNIQUE images found"
     walkErrors |-> {},       \* "Error processing image i", with the step
     extractErrors |-> {},    \* "Error extracting comments"
     filenameErrors |-> {},   \* "Error getting filename"
     writeErrors |-> {},      \* "! Error writing to file"
     added |-> {},            \* "Added to output file"
     scanComplete |-> FALSE,  \* "Scan complete!"
     finalizeError |-> FALSE, \* "Error finalizing output file"
     scrapeError |-> FALSE]   \* "Error during scraping"

\* no step of the run has failed
NoFailure ==
    /\ log.walkErrors = {} /\ log.extractErrors = {} /\ log.filenameErrors = {}
    /\ log.writeErrors = {} /\ ~log.finalizeError /\ ~log.scrapeError

----------------------------------------------------------------------------
\* scrape_gallery_comments

\* __init__ and _setup_output_file have run: the header is in the file
Init ==
    /\ pc = "goto"
    /\ scroll_attempts = 0
    /\ last_count = 0
    /\ reads = 0
    /\ gallerySize = 0
    /\ image_elements = <<>>
    /\ i = 0
    /\ displayed = 0
    /\ page = NoPage
    /\ comments_found = <<>>
    /\ commented_images = <<>>
    /\ file = Header
    /\ result = <<>>
    /\ browser = "open"
    /\ closes = 0
    /\ screenshots = <<>>
    /\ shown = <<>>
    /\ faults = 0
    /\ log = NoLog
    /\ ClientInit

\* a call raises / no call raises in this step
Fault == faults < MaxFaults /\ faults' = faults + 1
NoFault == faults' = faults

\* an exception unwinds to the top-level handler (line 235)
Unwind ==
    /\ Fault
    /\ pc' = "handler"
    /\ UNCHANGED <<scroll_attempts, last_count, reads, gallerySize,
                   image_elements, i, displayed, page, comments_found,
                   commented_images, file, result, browser, closes,
                   screenshots, shown, log>>

\* lines 73-107: open the gallery, pass the password form, wait for images
Navigate ==
    /\ pc = "goto"
    /\ \/ /\ NoFault
          /\ pc' = "scroll"
          /\ scroll_attempts' = 0
          /\ last_count' = 0
          /\ UNCHANGED <<reads, gallerySize, image_elements, i, displayed,
                         page, comments_found, commented_images, file, result,
                         browser, closes, screenshots, shown, log>>
       \/ Unwind
    /\ ClientNotStarted

\* the loop left one unchanged read early
StopScrolling_Early(current_count, previous_count, attempts) ==
    /\ current_count = previous_count
    /\ attempts >= StableTries - 1

\* lines 118-121: the read repeats the count before it and the attempts
\* counter has reached the threshold
StopScrolling(current_count, previous_count, attempts) ==
    /\ current_count = previous_count
    /\ attempts >= StableTries

\* the counts printed, the last four of them kept
Printed(counts, current_count) ==
    LET all == Append(counts, current_count)
    IN  IF Len(all) > 4 THEN SubSeq(all, Len(all) - 3, Len(all)) ELSE all

\* lines 110-130: one pass of the lazy-load loop.  The page reports any
\* count; after MaxReads reads it reports the count it reported last.
ScrollRead ==
    /\ pc = "scroll"
    /\ \/ /\ NoFault
          /\ IF scroll_attempts < max_scroll_attempts
             THEN \E current_count \in 0..MaxCount :
                     /\ reads >= MaxReads => current_count = last_count
                     /\ reads' = reads + 1
                     /\ log' = [log EXCEPT
                                   !.counts = Printed(@, current_count)]
                     /\ IF StopScrolling(current_count, last_count,
                                         scroll_attempts)
                        THEN /\ pc' = "enumerate"
                             /\ UNCHANGED <<scroll_attempts, last_count>>
                        ELSE /\ pc' = "scroll"
                             /\ scroll_attempts' =
                                   (IF current_count = last_count
                                    THEN scroll_attempts ELSE 0) + 1
                             /\ last_count' = current_count
             ELSE /\ pc' = "enumerate"
                  /\ UNCHANGED <<scroll_attempts, last_count, reads, log>>
          /\ UNCHANGED <<gallerySize, image_elements, i, displayed, page,
                         comments_found, commented_images, file, result,
                         browser, closes, screenshots, shown>>
       \/ Unwind
    /\ ClientNotStarted

\* lines 132-164: query the grid and deduplicate.  The locals of the
\* lazy-load loop are dead from here on and leave the state, and so do the
\* counts it has printed.
EnumerateFrom(galleries) ==
    /\ pc = "enumerate"
    /\ \/ \E g \in galleries :
             /\ NoFault
             /\ gallerySize' = g[1]
             /\ image_elements' = UniqueElements(DomOf(g))
             /\ pc' = "counted"
             /\ scroll_attempts' = 0
             /\ last_count' = 0
             /\ reads' = 0
             /\ log' = [log EXCEPT !.enumerated = TRUE, !.counts = <<>>]
             /\ UNCHANGED <<i, displayed, page, comments_found,
                            commented_images, file, result, browser, closes,
                            screenshots, shown>>
       \/ Unwind
    /\ ClientNotStarted

Enumerate == EnumerateFrom(WalkGalleries)

EnumerateAny == EnumerateFrom(AllGalleries)

\* EmptyReturn without the screenshot of line 169
EmptyReturn_NoScreenshot ==
    /\ pc = "counted"
    /\ Len(image_elements) = 0
    /\ NoFault
    /\ pc' = "finally_empty"
    /\ UNCHANGED <<scroll_attempts, last_count, reads, gallerySize,
                   image_elements, i, displayed, page, comments_found,
                   commented_images, file, result, browser, closes,
                   screenshots, shown, log>>
    /\ ClientNotStarted

\* lines 166-171: nothing found
EmptyReturn ==
    /\ pc = "counted"
    /\ Len(image_elements) = 0
    /\ \/ /\ NoFault
          /\ screenshots' = Append(screenshots, "debug_gallery.png")
          /\ pc' = "finally_empty"
          /\ UNCHANGED <<scroll_attempts, last_count, reads, gallerySize,
                         image_elements, i, displayed, page, comments_found,
                         commented_images, file, result, browser, closes,
                         shown, log>>
       \/ Unwind
    /\ ClientNotStarted

\* the lightbox moves forward: past the last image it stays or wraps
NextDisplayed(d) == IF d < gallerySize THEN {d + 1} ELSE {d, 1}

\* lines 174-181: click the first element, start the loop
EnterLightbox ==
    /\ pc = "counted"
    /\ Len(image_elements) > 0
    /\ \/ /\ NoFault
          /\ displayed' = image_elements[1].img
          /\ \E p \in WalkPages : page' = p
          /\ i' = 1
          /\ pc' = "reveal"
          /\ UNCHANGED <<scroll_attempts, last_count, reads, gallerySize,
                         image_elements, comments_found, commented_images,
                         file, result, browser, closes, screenshots, shown,
                         log>>
       \/ Unwind
    /\ ClientNotStarted

\* the per-image handler is entered (line 220)
Raise(stage) ==
    /\ Fault
    /\ pc' = "except"
    /\ log' = [log EXCEPT !.walkErrors = @ \cup {<<i, stage>>}]

\* lines 183-190: look for the comment control and click it
RevealComments ==
    /\ pc = "reveal"
    /\ \/ /\ pc' = "extract"
          /\ NoFault
          /\ UNCHANGED log
       \/ Raise("reveal")
    /\ UNCHANGED <<scroll_attempts, last_count, reads, gallerySize,
                   image_elements, i, displayed, page, comments_found,
                   commented_images, file, result, browser, closes,
                   screenshots, shown>>
    /\ ClientNotStarted

\* line 193: extract_image_comments catches its own exceptions and then
\* returns what it has, which is nothing (lines 248-339)
ExtractComments ==
    /\ pc = "extract"
    /\ \/ /\ comments_found' = extract_image_comments(page)
          /\ NoFault
          /\ UNCHANGED log
       \/ /\ comments_found' = <<>>
          /\ Fault
          /\ log' = [log EXCEPT !.extractErrors = @ \cup {i}]
    /\ shown' = Append(shown, page)
    /\ pc' = "record"
    /\ UNCHANGED <<scroll_attempts, last_count, reads, gallerySize,
                   image_elements, i, displayed, page, commented_images, file,
                   result, browser, closes, screenshots>>
    /\ ClientNotStarted

\* RecordResult without the test of line 195: a result is recorded whatever
\* extraction returned
RecordResult_Unguarded ==
    /\ pc = "record"
    /\ \E failed \in BOOLEAN :
          LET filename == IF failed THEN Placeholder
                          ELSE get_image_filename(page)
          IN  /\ IF failed THEN Fault ELSE NoFault
              /\ log' = IF failed
                        THEN [log EXCEPT !.filenameErrors = @ \cup {i}]
                        ELSE log
              /\ commented_images' =
                    Append(commented_images,
                           [filename |-> filename,
                            comments |-> comments_found,
                            image_index |-> i])
              /\ pc' = "write"
    /\ UNCHANGED <<scroll_attempts, last_count, reads, gallerySize,
                   image_elements, i, displayed, page, comments_found, file,
                   result, browser, closes, screenshots, shown>>
    /\ ClientNotStarted

\* lines 195-204 and 210-213: resolve the file name and record the result.
\* get_image_filename catches its own exceptions and then returns the
\* placeholder (lines 412-414).
RecordResult ==
    /\ pc = "record"
    /\ IF comments_found # <<>>
       THEN \E failed \in BOOLEAN :
               LET filename == IF failed THEN Placeholder
                               ELSE get_image_filename(page)
               IN  /\ IF failed THEN Fault ELSE NoFault
                   /\ log' = IF failed
                             THEN [log EXCEPT !.filenameErrors = @ \cup {i}]
                             ELSE log
                   /\ IF filename # <<>>
                      THEN /\ commented_images' =
                                 Append(commented_images,
                                        [filename |-> filename,
                                         comments |-> comments_found,
                                         image_index |-> i])
                           /\ pc' = "write"
                      ELSE /\ pc' = "advance"
                           /\ UNCHANGED commented_images
       ELSE /\ pc' = "advance"
            /\ UNCHANGED <<commented_images, log, faults>>
    /\ UNCHANGED <<scroll_attempts, last_count, reads, gallerySize,
                   image_elements, i, displayed, page, comments_found, file,
                   result, browser, closes, screenshots, shown>>
    /\ ClientNotStarted

\* line 207 and _append_result_to_file, lines 49-57: the line is written and
\* flushed, or the write raises and the error is printed
AppendResultToFile ==
    /\ pc = "write"
    /\ LET item == commented_images[Len(commented_images)]
       IN  \/ /\ NoFault
              /\ file' = file \o WriteLn(item.filename)
              /\ log' = [log EXCEPT !.added = @ \cup {item.image_index}]
           \/ /\ Fault
              /\ file' = file
              /\ log' = [log EXCEPT !.writeErrors = @ \cup {item.image_index}]
    /\ pc' = "advance"
    /\ UNCHANGED <<scroll_attempts, last_count, reads, gallerySize,
                   image_elements, i, displayed, page, comments_found,
                   commented_images, result, browser, closes, screenshots,
                   shown>>
    /\ ClientNotStarted

\* ArrowRight has taken effect: the lightbox shows another image
ShowNext ==
    /\ displayed' \in NextDisplayed(displayed)
    /\ \E p \in WalkPages : page' = p

\* lines 215-218: press ArrowRight and wait, unless this is the last position.
\* The key press may raise before it takes effect; the wait after it may
\* raise when the lightbox has already moved.
Advance ==
    /\ pc = "advance"
    /\ IF i < Len(image_elements)
       THEN \/ /\ ShowNext
               /\ i' = i + 1
               /\ pc' = "reveal"
               /\ UNCHANGED <<log, faults>>
            \/ /\ Raise("advance")
               /\ UNCHANGED <<displayed, page, i>>
            \/ /\ ShowNext
               /\ Raise("advance")
               /\ UNCHANGED i
       ELSE /\ pc' = "finalize"
            /\ UNCHANGED <<displayed, page, i, log, faults>>
    /\ UNCHANGED <<scroll_attempts, last_count, reads, gallerySize,
                   image_elements, comments_found, commented_images, file,
                   result, browser, closes, screenshots, shown>>
    /\ ClientNotStarted

\* ExceptAdvance as a retry: the handler goes back to the position that
\* raised instead of moving on
ExceptAdvance_Retry ==
    /\ pc = "except"
    /\ pc' = "reveal"
    /\ NoFault
    /\ UNCHANGED <<scroll_attempts, last_count, reads, gallerySize,
                   image_elements, i, displayed, page, comments_found,
                   commented_images, file, result, browser, closes,
                   screenshots, shown, log>>
    /\ ClientNotStarted

\* lines 220-226: the per-image handler presses ArrowRight itself and goes on
\* with the next position; an exception raised here is caught at line 235
ExceptAdvance ==
    /\ pc = "except"
    /\ IF i < Len(image_elements)
       THEN \/ /\ ShowNext
               /\ i' = i + 1
               /\ pc' = "reveal"
               /\ NoFault
            \/ /\ Fault
               /\ pc' = "handler"
               /\ UNCHANGED <<displayed, page, i>>
            \/ /\ ShowNext
               /\ Fault
               /\ pc' = "handler"
               /\ UNCHANGED i
       ELSE /\ pc' = "finalize"
            /\ NoFault
            /\ UNCHANGED <<displayed, page, i>>
    /\ UNCHANGED <<scroll_attempts, last_count, reads, gallerySize,
                   image_elements, comments_found, commented_images, file,
                   result, browser, closes, screenshots, shown, log>>
    /\ ClientNotStarted

\* lines 230-233 and _finalize_output_file, lines 416-442
FinalizeOutputFile ==
    /\ pc = "finalize"
    /\ \/ /\ NoFault
          /\ file' = file \o FinalBlock(commented_images)
          /\ log' = [log EXCEPT !.scanComplete = TRUE]
       \/ /\ Fault
          /\ file' = file
          /\ log' = [log EXCEPT !.scanComplete = TRUE, !.finalizeError = TRUE]
    /\ pc' = "finally"
    /\ UNCHANGED <<scroll_attempts, last_count, reads, gallerySize,
                   image_elements, i, displayed, page, comments_found,
                   commented_images, result, browser, closes, screenshots,
                   shown>>
    /\ ClientNotStarted

\* the top-level handler closing the browser itself, before the finally
\* clause closes it again
TopLevelHandler_Closes ==
    /\ pc = "handler"
    /\ log' = [log EXCEPT !.scrapeError = TRUE]
    /\ screenshots' = Append(screenshots, "debug_error.png")
    /\ browser' = "closed"
    /\ closes' = closes + 1
    /\ pc' = "finally"
    /\ UNCHANGED <<scroll_attempts, last_count, reads, gallerySize,
                   image_elements, i, displayed, page, comments_found,
                   commented_images, file, result, shown, faults>>
    /\ ClientNotStarted

\* lines 235-239: the top-level handler
TopLevelHandler ==
    /\ pc = "handler"
    /\ log' = [log EXCEPT !.scrapeError = TRUE]
    /\ screenshots' = Append(screenshots, "debug_error.png")
    /\ pc' = "finally"
    /\ UNCHANGED <<scroll_attempts, last_count, reads, gallerySize,
                   image_elements, i, displayed, page, comments_found,
                   commented_images, file, result, browser, closes, shown,
                   faults>>
    /\ ClientNotStarted

\* lines 241-244 (and the return of line 171): close the browser, return
CloseAndReturn ==
    /\ pc \in {"finally", "finally_empty"}
    /\ browser' = "closed"
    /\ closes' = closes + 1
    /\ result' = IF pc = "finally_empty" THEN <<>> ELSE commented_images
    /\ pc' = "returned"
    /\ UNCHANGED <<scroll_attempts, last_count, reads, gallerySize,
                   image_elements, i, displayed, page, comments_found,
                   commented_images, file, screenshots, shown, faults, log>>
    /\ ClientNotStarted

Walk ==
    \/ RevealComments
    \/ ExtractComments
    \/ RecordResult
    \/ AppendResultToFile
    \/ Advance
    \/ ExceptAdvance
    \/ FinalizeOutputFile

Next ==
    \/ Navigate
    \/ ScrollRead
    \/ Enumerate
    \/ EmptyReturn
    \/ EnterLightbox
    \/ Walk
    \/ TopLevelHandler
    \/ CloseAndReturn

Spec == Init /\ [][Next]_vars

\* the lightbox has been entered on a gallery of one image and the comment
\* control has been looked for (line 193 is reached): any detail view
InitDetail ==
    /\ pc = "extract"
    /\ scroll_attempts = 0
    /\ last_count = 0
    /\ reads = 0
    /\ gallerySize = 1
    /\ image_elements = <<Link(1, 1)>>
    /\ i = 1
    /\ displayed = 1
    /\ page \in DetailPages
    /\ comments_found = <<>>
    /\ commented_images = <<>>
    /\ file = Header
    /\ result = <<>>
    /\ browser = "open"
    /\ closes = 0
    /\ screenshots = <<>>
    /\ shown = <<>>
    /\ faults = 0
    /\ log = [NoLog EXCEPT !.enumerated = TRUE]
    /\ ClientInit

\* the walk over that one image
NextDetail ==
    \/ ExtractComments
    \/ RecordResult
    \/ AppendResultToFile
    \/ Advance
    \/ FinalizeOutputFile
    \/ CloseAndReturn

SpecDetail == InitDetail /\ [][NextDetail]_vars

\* the enumeration alone, on every grid
NextEnum ==
    \/ Navigate
    \/ ScrollRead
    \/ EnumerateAny
    \/ EmptyReturn
    \/ TopLevelHandler
    \/ CloseAndReturn

SpecEnum == Init /\ [][NextEnum]_vars

----------------------------------------------------------------------------
\* smugmug-client.py: main() and the methods it calls

\* an exception reaches the handler of main() (lines 295-296)
Propagate(e) == exception' = e /\ api_pc' = "failed"

\* how a request ended, for the record
Ended(outcome, wrapped) ==
    IF outcome # "ok" THEN outcome
    ELSE IF wrapped THEN "data" ELSE "no Response"

\* the record of the requests grows by one
Request(endpoint, arg, outcome, wrapped) ==
    requests' = requests \cup {<<endpoint, arg, Ended(outcome, wrapped)>>}

\* line 234, SmugMugClient.__init__ (line 25): the credentials are loaded
LoadCredentials ==
    /\ ScraperNotStarted
    /\ api_pc = "start"
    /\ \E e \in Environments :
          LET loaded == load_credentials(e)
          IN  /\ env' = e
              /\ IF loaded.raises # <<>>
                 THEN /\ Propagate(loaded.raises)
                      /\ UNCHANGED credentials
                 ELSE /\ credentials' = loaded.returns
                      /\ api_pc' = "albums"
                      /\ UNCHANGED exception
    /\ UNCHANGED <<album, images, start, position, comments, album_commented,
                   report, requests>>

\* get_user_albums (lines 65-82) and the selection of an album (lines
\* 237-268): without albums main() returns
GetUserAlbums ==
    /\ ScraperNotStarted
    /\ api_pc = "albums"
    /\ \E o1 \in Outcomes, o2 \in Outcomes, wrapped \in BOOLEAN,
          n \in 0..MaxAlbum :
          LET user_info ==
                  make_request(o1, [Response |-> [User |-> "triggbowlin"]])
              response ==
                  make_request(o2, IF wrapped
                                   THEN [Response |-> [Album |-> "albums"]]
                                   ELSE ErrorBody)
          IN  IF user_info = Raised
              THEN /\ Propagate(<<"RequestException">>)
                   /\ Request("user", 0, o1, TRUE)
                   /\ UNCHANGED album
              ELSE IF user_info = None
              THEN /\ api_pc' = "done"
                   /\ Request("user", 0, o1, TRUE)
                   /\ UNCHANGED <<album, exception>>
              ELSE IF response = Raised
              THEN /\ Propagate(<<"RequestException">>)
                   /\ requests' = requests
                         \cup {<<"user", 0, "data">>,
                               <<"albums", 0, Ended(o2, wrapped)>>}
                   /\ UNCHANGED album
              ELSE /\ requests' = requests
                         \cup {<<"user", 0, "data">>,
                               <<"albums", 0, Ended(o2, wrapped)>>}
                   /\ IF NoData(response)
                      THEN api_pc' = "done" /\ UNCHANGED album
                      ELSE api_pc' = "fetch" /\ album' = n
                   /\ UNCHANGED exception
    /\ UNCHANGED <<env, credentials, images, start, position, comments,
                   album_commented, report>>

\* get_album_images, lines 92-109: one pass of the loop; when the loop is left
\* the list is returned (lines 111-112) and process_album_for_comments goes
\* on with it or returns at once (lines 145-149)
GetAlbumImages ==
    /\ ScraperNotStarted
    /\ api_pc = "fetch"
    /\ \E outcome \in Outcomes, wrapped \in BOOLEAN :
          LET response ==
                  make_request(outcome, IF wrapped THEN ImagesBody(album, start)
                                        ELSE ErrorBody)
              batch_images ==
                  IF NoData(response) THEN <<>>
                  ELSE Get(response.Response, "AlbumImage", <<>>)
              last == Len(batch_images) < count
              album_images == images \o batch_images
          IN  /\ Request("images", start, outcome, wrapped)
              /\ IF response = Raised
                 THEN /\ Propagate(<<"RequestException">>)
                      /\ UNCHANGED <<images, start>>
                 ELSE /\ images' = album_images
                      /\ start' = IF last THEN start ELSE start + count
                      /\ api_pc' = IF ~last THEN "fetch"
                                   ELSE IF album_images = <<>> THEN "done"
                                   ELSE "loop"
                      /\ UNCHANGED exception
    /\ UNCHANGED <<env, credentials, album, position, comments,
                   album_commented, report>>

\* lines 151-160 and get_image_comments (lines 114-124)
GetImageComments ==
    /\ ScraperNotStarted
    /\ api_pc = "loop"
    /\ position < Len(images)
    /\ \E outcome \in Outcomes, wrapped \in BOOLEAN, cs \in ServerComments :
          LET image_key == images[position + 1].ImageKey
              response ==
                  make_request(outcome, IF wrapped THEN CommentsBody(cs)
                                        ELSE ErrorBody)
              found == IF NoData(response) THEN <<>>
                       ELSE Get(response.Response, "Comment", <<>>)
          IN  /\ Request("comments", image_key, outcome, wrapped)
              /\ IF response = Raised
                 THEN /\ Propagate(<<"RequestException">>)
                      /\ UNCHANGED <<comments, position>>
                 ELSE /\ comments' = found
                      /\ IF found # <<>>
                         THEN api_pc' = "details" /\ UNCHANGED position
                         ELSE api_pc' = "loop" /\ position' = position + 1
                      /\ UNCHANGED exception
    /\ UNCHANGED <<env, credentials, album, images, start, album_commented,
                   report>>

\* lines 160-173 and get_image_details (lines 126-135)
GetImageDetails ==
    /\ ScraperNotStarted
    /\ api_pc = "details"
    /\ \E outcome \in Outcomes, wrapped \in BOOLEAN, named \in BOOLEAN :
          LET image_key == images[position + 1].ImageKey
              response ==
                  make_request(outcome,
                               IF wrapped THEN DetailsBody(image_key, named)
                               ELSE ErrorBody)
              image_details == IF NoData(response) THEN None
                               ELSE response.Response.Image
          IN  /\ Request("details", image_key, outcome, wrapped)
              /\ IF response = Raised
                 THEN /\ Propagate(<<"RequestException">>)
                      /\ UNCHANGED <<album_commented, position>>
                 ELSE /\ album_commented' =
                            IF image_details # None
                            THEN Append(album_commented,
                                        Entry(image_key, image_details, comments))
                            ELSE album_commented
                      /\ position' = position + 1
                      /\ api_pc' = "loop"
                      /\ UNCHANGED exception
    /\ UNCHANGED <<env, credentials, album, images, start, comments, report>>

\* lines 175-176 and 271-291: the loop is over; main() saves what was found
ReturnCommented ==
    /\ ScraperNotStarted
    /\ api_pc = "loop"
    /\ position = Len(images)
    /\ api_pc' = IF album_commented # <<>> THEN "save" ELSE "done"
    /\ UNCHANGED <<env, credentials, exception, album, images, start,
                   position, comments, album_commented, report, requests>>

\* save_results, lines 178-225: the file is written, or makedirs, open or a
\* write raises
SaveResults ==
    /\ ScraperNotStarted
    /\ api_pc = "save"
    /\ \/ /\ report' = ReportLines(album_commented)
          /\ api_pc' = "done"
          /\ UNCHANGED exception
       \/ /\ Propagate(<<"OSError">>)
          /\ UNCHANGED report
    /\ UNCHANGED <<env, credentials, album, images, start, position, comments,
                   album_commented, requests>>

NextClient ==
    \/ LoadCredentials
    \/ GetUserAlbums
    \/ GetAlbumImages
    \/ GetImageComments
    \/ GetImageDetails
    \/ ReturnCommented
    \/ SaveResults

\* a run of the client
SpecClient == Init /\ [][NextClient]_vars

\* a run of either script
NextTool == Next \/ NextClient

SpecTool == Init /\ [][NextTool]_vars

----------------------------------------------------------------------------
\* Properties of the walk.

\* the filenames of the first n recorded results
Filenames(n) == [k \in 1..n |-> commented_images[k].filename]

\* the results whose append has been carried out: all but the one in flight
Appended == IF pc = "write" THEN Len(commented_images) - 1
            ELSE Len(commented_images)

\* the lines of the file after the header
AfterHeader == SubSeq(file, Len(Header) + 1, Len(file))

\* the walk has not been finalized
BeforeFinalization == ~log.scanComplete

\* lines occurs in the file after the header, as consecutive lines
OccursInFile(lines) ==
    \E j \in 0..(Len(AfterHeader) - Len(lines)) :
        SubSeq(AfterHeader, j + 1, j + Len(lines)) = lines

\* C1: at the start of every iteration of the walk the lightbox shows the
\* image of the loop position, whatever has raised before.
C1_DisplayedIsLoopPosition == pc = "reveal" => displayed = i

\* C2: once the lightbox is entered the run never ends before the loop has
\* reached the last position and the report has been finalized.
C2_WalkNeverAborts ==
    (pc = "returned" /\ i >= 1) =>
        (i = Len(image_elements) /\ log.scanComplete)

\* C3: every recorded result except the one in flight has its filename line
\* in the file.
C3_RecordedResultsAreInFile ==
    BeforeFinalization =>
        \A k \in 1..Appended : OccursInFile(WriteLn(commented_images[k].filename))

\* C4: before finalization the file is the header followed by the filenames
\* of the results appended so far, one per line, in order.
C4_FileIsHeaderPlusFilenames ==
    BeforeFinalization => file = Header \o Filenames(Appended)

\* every comment of a list carries the reviewer's name
AllMatchReviewer(cs) == \A k \in 1..Len(cs) : HasTargetName(cs[k].text)

\* C5: during the walk a result is recorded, and a line written, only for a
\* position at which extract_image_comments has returned at least one
\* comment carrying the reviewer's name; a position without one leaves the
\* list and the file as they are.
C5_RecordOnlyWithComments ==
    [][ /\ commented_images' # commented_images =>
              /\ comments_found # <<>>
              /\ comments_found = extract_image_comments(page)
              /\ AllMatchReviewer(comments_found)
              /\ commented_images' =
                    Append(commented_images,
                           [filename |-> commented_images'[Len(commented_images')].filename,
                            comments |-> comments_found,
                            image_index |-> i])
        /\ (file' # file /\ pc # "finalize") =>
              /\ pc = "write"
              /\ comments_found # <<>>
              /\ commented_images[Len(commented_images)].image_index = i
        /\ (pc = "record" /\ comments_found = <<>>) =>
              /\ commented_images' = commented_images
              /\ file' = file
              /\ pc' = "advance"
      ]_vars

\* a result and its line are in place while an earlier or later position
\* without a comment has left no trace
C5_Witness ==
    /\ pc = "advance"
    /\ i = 2
    /\ comments_found = <<>>
    /\ Len(shown) = 2
    /\ shown[2] = PageShort
    /\ Len(commented_images) = 1
    /\ file = Header \o << <<"b", ".jpg">> >>

\* the positions extraction has met a comment block of the reviewer at
CommentedPositions == {k \in 1..Len(shown) : shown[k].blocks >= 1}

\* the number of lines of the file between the header and the final block
ListedLines == Len(file) - Len(Header) - Len(FinalBlock(commented_images))

\* C6: when no step has failed and every image either shows one comment
\* block of the reviewer or does not show the name at all, the finished
\* report lists one line per commented position, the results are those
\* positions in order, and every detail entry has one comment.
C6_EndToEnd ==
    (/\ pc = "returned"
     /\ log.scanComplete
     /\ faults = 0
     /\ Len(shown) = Len(image_elements)
     /\ \A k \in 1..Len(shown) : IsFixturePage(shown[k]))
    =>
    (/\ ListedLines = Cardinality(CommentedPositions)
     /\ Len(commented_images) = Cardinality(CommentedPositions)
     /\ \A k \in 1..Len(commented_images) :
           /\ commented_images[k].image_index \in CommentedPositions
           /\ Len(commented_images[k].comments) = 1
           /\ k > 1 => commented_images[k - 1].image_index
                          < commented_images[k].image_index)

\* C7: the enumeration yields exactly one reference per image of the gallery.
C7_EnumerationYieldsEveryImageOnce ==
    (log.enumerated /\ pc = "counted") => Len(image_elements) = gallerySize

\* C8: no two references stand for the same image, and references are keyed
\* by link target when a link was found and by image source otherwise.
C8_NoTwoReferencesToOneImage ==
    (log.enumerated /\ pc = "counted") =>
        /\ \A a, b \in 1..Len(image_elements) :
              a # b => image_elements[a].img # image_elements[b].img
        /\ \/ \A a \in 1..Len(image_elements) : image_elements[a].tag = "a"
           \/ \A a \in 1..Len(image_elements) : image_elements[a].tag = "img"

C10_ErrorPositionContributesNothing ==
    \A e \in log.walkErrors :
        /\ \A k \in 1..Len(commented_images) :
              commented_images[k].image_index # e[1]
        /\ e[1] \notin log.added

\* C10, amended: a position whose processing raised before extraction, while
\* the comment control was looked for and clicked, has no entry in
\* commented_images and no line in the file, and no append was tried for it.
C10_EarlyErrorContributesNothing ==
    \A e \in log.walkErrors :
        e[2] = "reveal" =>
            /\ \A k \in 1..Len(commented_images) :
                  commented_images[k].image_index # e[1]
            /\ e[1] \notin log.added
            /\ e[1] \notin log.writeErrors

C10_Witness ==
    /\ pc = "returned"
    /\ log.scanComplete
    /\ log.walkErrors = {<<1, "reveal">>}
    /\ Len(commented_images) = 1
    /\ commented_images[1].image_index = 2
    /\ log.added = {2}

\* the number of lines of the file that read as line
Occurrences(line) == Cardinality({j \in 1..Len(file) : file[j] = line})

\* the walk has gone through every enumerated position (line 228 is reached)
WalkCompleted == log.scanComplete

\* the file ends with the final block of the recorded results, and the
\* block's title occurs nowhere before it
EndsWithFinalBlock ==
    LET block == FinalBlock(commented_images)
        n == Len(file) - Len(block)
    IN  /\ n >= Len(Header)
        /\ SubSeq(file, n + 1, Len(file)) = block
        /\ Occurrences(<<"FINAL SUMMARY:">>) = 1
        /\ Occurrences(<<"COMMENT DETAILS:">>) = 1

\* C11: the final block (count summary and comment details) is in the file,
\* once and after every filename line, exactly when the walk has completed;
\* a run that aborts or ends early never writes it.
C11_FinalBlockIffWalkCompleted ==
    /\ WalkCompleted => EndsWithFinalBlock
    /\ ~WalkCompleted => /\ Occurrences(<<"FINAL SUMMARY:">>) = 0
                         /\ Occurrences(<<"COMMENT DETAILS:">>) = 0

\* the sections of a report, by the lines that mark them
StartsWith(line, token) == line # <<>> /\ Head(line) = token

SummaryAt(lines) == {j \in 1..Len(lines) : StartsWith(lines[j], "Total: ")}

DetailsAt(lines) == {j \in 1..Len(lines) : lines[j] = <<"COMMENT DETAILS:">>}

EntriesAt(lines) ==
    {j \in 1..Len(lines) : \/ StartsWith(lines[j], "File: ")
                           \/ StartsWith(lines[j], "Comments (")
                           \/ StartsWith(lines[j], "  - ")}

\* the lines of the flat list: what stands between the header, of h lines,
\* and the first section title after it
ListAt(lines, h) ==
    LET titles == {j \in (h + 1)..Len(lines) :
                      lines[j] \in {<<"FINAL SUMMARY:">>, <<"COMMENT DETAILS:">>}
                      \/ StartsWith(lines[j], "Total: ")}
    IN  {j \in (h + 1)..Len(lines) :
            /\ \A t \in titles : j < t
            /\ lines[j] \notin {Blank, Rule}}

\* header, list, details, summary: the summary is the last section
SummaryLast(lines, h) ==
    \E t \in SummaryAt(lines), d \in DetailsAt(lines) :
        /\ SummaryAt(lines) = {t} /\ DetailsAt(lines) = {d}
        /\ h < d /\ d < t
        /\ \A j \in ListAt(lines, h) : j < d
        /\ \A j \in EntriesAt(lines) : d < j /\ j < t

\* header, list, summary, details: the details are the last section
DetailsLast(lines, h) ==
    \E t \in SummaryAt(lines), d \in DetailsAt(lines) :
        /\ SummaryAt(lines) = {t} /\ DetailsAt(lines) = {d}
        /\ h < t /\ t < d
        /\ \A j \in ListAt(lines, h) : j < t
        /\ \A j \in EntriesAt(lines) : d < j
        /\ EntriesAt(lines) # {} => Len(lines) > d + 2

\* the scraper has written its whole report
ScraperReportFinished == log.scanComplete /\ ~log.finalizeError

\* the client has written its report
ClientReportFinished == report # <<>>

----------------------------------------------------------------------------
\* Properties of extraction and of the file name resolver, on one image.

\* extract_image_comments has returned and its value is at hand
Extracted == pc = "record" /\ Len(shown) = 1

\* C13: extract_image_comments returns the empty list whenever the page text
\* holds no variant of the reviewer's name, and the text of every comment it
\* returns holds one.
C13_NoNameNoComment ==
    Extracted =>
        /\ ~HasTargetName(shown[1].text) => comments_found = <<>>
        /\ \A k \in 1..Len(comments_found) :
              \E j \in 1..Len(comments_found[k].text) :
                  comments_found[k].text[j] \in NameTokens

\* the page text is without the name, an element that a selector finds
\* carries it, and nothing is returned
C13_Witness ==
    /\ Extracted
    /\ log.extractErrors = {}
    /\ ~HasTargetName(shown[1].text)
    /\ \E k \in 1..Len(shown[1].elems) :
          /\ HasTargetName(shown[1].elems[k].text)
          /\ ~shown[1].elems[k].raises /\ ~shown[1].elems[k].stale
    /\ comments_found = <<>>

\* C14: get_image_filename returns a non-empty string on every page, also when
\* every method fails or a call raises, so that every position with a comment
\* is recorded with a non-empty filename and its line in the report is not
\* empty.
C14_FilenameNeverEmpty ==
    [][ /\ (pc = "record" /\ comments_found # <<>>) =>
              /\ pc' = "write"
              /\ Len(commented_images') = Len(commented_images) + 1
              /\ commented_images'[Len(commented_images')].filename # <<>>
              /\ TextLen(commented_images'[Len(commented_images')].filename) > 0
        /\ (pc = "write" /\ file' # file) =>
              /\ Len(file') > Len(file)
              /\ Flatten(SubSeq(file', Len(file) + 1, Len(file'))) # <<>>
      ]_vars

\* a page without overlay, short text, title, URL token and image source:
\* the result is recorded under the placeholder, no call having raised
C14_Witness ==
    /\ pc = "write"
    /\ Len(shown) = 1
    /\ shown[1].overlays = <<>> /\ shown[1].lower = <<>>
    /\ shown[1].title = <<>> /\ shown[1].urlToken = ""
    /\ shown[1].imgSrc = <<>>
    /\ log.filenameErrors = {}
    /\ Len(commented_images) = 1
    /\ commented_images[1].filename = Placeholder

----------------------------------------------------------------------------
\* Properties of the client.

\* the required values that are absent or empty in the environment
MissingValues ==
    {key \in DOMAIN env : env[key] = Unset \/ env[key] = ""}

\* load_credentials has raised
CredentialsError ==
    exception # <<>> /\ Head(exception) = "Missing required credentials: "

\* the names an error message lists
NamesIn(message) == {message[j] : j \in 2..Len(message)} \ {", "}

\* C15: load_credentials raises exactly when one of the four required values
\* is absent or empty, its message names the missing values and no other, and
\* otherwise it returns the four values.
C15_RaisesIffValueMissing ==
    api_pc # "start" =>
        /\ CredentialsError <=> MissingValues # {}
        /\ CredentialsError =>
              /\ api_pc = "failed"
              /\ credentials = None
              /\ NamesIn(exception) = MissingValues
              /\ Len(exception) = 2 * Cardinality(MissingValues)
        /\ ~CredentialsError =>
              /\ DOMAIN credentials = DOMAIN env
              /\ Cardinality(DOMAIN credentials) = 4
              /\ \A key \in DOMAIN env :
                    credentials[key] = env[key] /\ credentials[key] # ""

\* the token is set to the empty string and the secret is not set: the error
\* names the two
C15_Witness ==
    /\ api_pc = "failed"
    /\ env["consumer_key"] = "k3y" /\ env["consumer_secret"] = "k3y"
    /\ env["oauth_token"] = "" /\ env["oauth_secret"] = Unset
    /\ exception = <<"Missing required credentials: ", "oauth_token", ", ",
                     "oauth_secret">>

\* the request to an endpoint has failed (session.get or raise_for_status
\* has raised)
Failed(endpoint, arg) == <<endpoint, arg, "http error">> \in requests

\* C16: a failed request never raises out of make_request; get_album_images
\* then returns the images gathered so far, get_image_comments the empty
\* list and get_image_details None, the image being left out; so that
\* process_album_for_comments goes through every image of the list without
\* raising.
C16_FailedRequestIsNoData ==
    /\ exception # <<"RequestException">>
    /\ api_pc = "failed" => (CredentialsError \/ exception = <<"OSError">>)
    /\ \A k \in 1..Len(images) : images[k] = [ImageKey |-> k]
    /\ Len(images) <= album
    /\ \A s \in 1..(album + 1) :
          (Failed("images", s) /\ api_pc # "fetch") => Len(images) = s - 1
    /\ (\A r \in requests : r[1] = "images" => r[3] = "data")
          => (api_pc # "fetch" => Len(images) = album)
    /\ \A k \in 1..Len(album_commented) :
          /\ ~Failed("comments", album_commented[k].image_key)
          /\ ~Failed("details", album_commented[k].image_key)
          /\ album_commented[k].image_key \in 1..position
    /\ ~(api_pc = "details" /\ Failed("comments", position + 1))
    /\ (api_pc \in {"save", "done"} /\ images # <<>>) =>
          /\ position = Len(images)
          /\ \A k \in 1..Len(images) :
                \E r \in requests : r[1] = "comments" /\ r[2] = k

\* the request for the second batch has failed and so has the request for
\* the comments of the first image: the run ends with the report of the
\* other images of the first batch
C16_Witness ==
    /\ api_pc = "done"
    /\ report # <<>>
    /\ Failed("images", count + 1)
    /\ Len(images) = count
    /\ album > count
    /\ Failed("comments", 1)
    /\ Len(album_commented) = count - 1
    /\ album_commented[1].image_key = 2

----------------------------------------------------------------------------
\* Properties of the lazy-load loop.

\* C17: the loop makes at most 20 reads of the count in all, whatever counts
\* the page reports.
C17_AtMostTwentyReads == reads <= max_scroll_attempts

\* the last three reads have each given the count of the read before
StableNow(counts) ==
    /\ Len(counts) = 4
    /\ \A k \in 2..Len(counts) : counts[k] = counts[k - 1]

\* C18: the loop is left at the read that is the third in a row to give the
\* count of the read before it, and at no other read, whatever counts the
\* page reports.
C18_StopsAtThirdUnchangedRead ==
    [][ (pc = "scroll" /\ pc' \in {"scroll", "enumerate"}) =>
            /\ reads' = reads + 1
            /\ (pc' = "enumerate") <=> StableNow(log'.counts)
      ]_vars

\* the count has changed twice and then stayed: the loop is left at the
\* sixth read
C18_Witness ==
    /\ pc = "enumerate"
    /\ reads = 6
    /\ log.counts = <<1, 1, 1, 1>>

\* the elements of a page that a selector finds, whose text can be read and
\* carries the name
MatchedBy(p, sel) ==
    {k \in 1..Len(p.elems) :
        /\ sel \in p.elems[k].sels
        /\ ~p.elems[k].raises
        /\ \E j \in 1..Len(p.elems[k].text) : p.elems[k].text[j] \in NameTokens}

\* the first selector of the list that has such an element, if any
Winning(p) ==
    {sel \in 1..NumSelectors :
        /\ MatchedBy(p, sel) # {}
        /\ \A m \in 1..(sel - 1) : MatchedBy(p, m) = {}}

\* cs are comments of one selector of sels, one for each element of ks and
\* with its stripped text
FromSelector(cs, p, sels, ks) ==
    /\ Len(cs) = Cardinality(ks)
    /\ \A k \in 1..Len(cs) :
          /\ cs[k].selector_used \in sels
          /\ \E j \in ks : cs[k].text = Strip(p.elems[j].text)
    /\ \A j \in ks : \E k \in 1..Len(cs) : cs[k].text = Strip(p.elems[j].text)

\* cs are the lines of the page text that, stripped, are longer than 10
\* characters and carry the name, found by the text search
FromPageText(cs, p) ==
    LET lines == SplitLines(p.text)
        kept == {j \in 1..Len(lines) :
                    /\ TextLen(Strip(lines[j])) > 10
                    /\ \E m \in 1..Len(lines[j]) : lines[j][m] \in NameTokens}
    IN  /\ Len(cs) = Cardinality(kept)
        /\ \A k \in 1..Len(cs) :
              /\ cs[k].selector_used = TextSearch
              /\ \E j \in kept : cs[k].text = Strip(lines[j])
        /\ \A j \in kept : \E k \in 1..Len(cs) : cs[k].text = Strip(lines[j])

\* extraction has returned without an exception on a page that shows the name
ExtractedWithName ==
    /\ Extracted
    /\ log.extractErrors = {}
    /\ HasTargetName(shown[1].text)

\* C19 as stated: with the name on the page, the comments returned all come
\* from the first selector of the list that has an element carrying the name;
\* the lines of the page text are used if and only if no selector has such
\* an element, and then the lines kept are the stripped lines longer than 10
\* characters that carry the name.
C19_FallbackIffNoSelectorMatches ==
    ExtractedWithName =>
        LET p == shown[1]
        IN  IF Winning(p) # {}
            THEN \A k \in 1..Len(comments_found) :
                    /\ comments_found[k].selector_used \in Winning(p)
                    /\ \E sel \in Winning(p) :
                          \E j \in MatchedBy(p, sel) :
                              comments_found[k].text = Strip(p.elems[j].text)
            ELSE FromPageText(comments_found, p)

\* the elements of the winning selector whose text can be read a second time
ReadAgain(p) ==
    {j \in 1..Len(p.elems) :
        /\ \E sel \in Winning(p) : j \in MatchedBy(p, sel)
        /\ ~p.elems[j].stale}

\* C19, amended: the lines of the page text are used if and only if the
\* selectors have yielded no comment: no selector has an element carrying
\* the name, or no element of the first such selector can be read again.
C19_FallbackIffNoStructuredComment ==
    ExtractedWithName =>
        LET p == shown[1]
        IN  IF ReadAgain(p) # {}
            THEN FromSelector(comments_found, p, Winning(p), ReadAgain(p))
            ELSE FromPageText(comments_found, p)

\* two selectors have elements carrying the name: the comments are those of
\* the first
C19_Witness ==
    /\ ExtractedWithName
    /\ MatchedBy(shown[1], 1) # {}
    /\ MatchedBy(shown[1], 4) # MatchedBy(shown[1], 1)
    /\ Len(comments_found) = 1
    /\ comments_found[1].selector_used = 1

\* a text shows a file name: a name and its extension
ShowsName(t) == \E k \in 2..Len(t) : t[k] \in ExtTokens

\* the first file name a text shows
NameIn(t) ==
    LET k == CHOOSE j \in 2..Len(t) :
                 t[j] \in ExtTokens /\ \A m \in 2..(j - 1) : t[m] \notin ExtTokens
    IN  <<t[k - 1], t[k]>>

\* the texts the first two methods look at, in the order they are tried
OverlayTexts(p) == SelectSeq(p.overlays, ShowsName)

LowerTexts(p) ==
    LET short == SelectSeq(p.lower,
                           LAMBDA e : /\ ShowsName(e.text)
                                      /\ TextLen(e.text) < 100
                                      /\ e.y > 400)
    IN  [k \in 1..Len(short) |-> short[k].text]

\* get_image_filename has returned for the page, no call having raised, and
\* its value is the filename of the result
Resolved ==
    /\ pc = "write"
    /\ Len(shown) = 1
    /\ log.filenameErrors = {}
    /\ Len(commented_images) = 1

\* C20: the methods are tried in the order overlay, short text in the lower
\* area, page title, URL token, image source, and the first that succeeds
\* gives the result: an overlay that shows foo.jpg gives exactly foo.jpg, and
\* a page with nothing but a URL token gives a non-empty name with the token
\* in it.
C20_FirstMethodGivesTheName ==
    Resolved =>
        LET p == shown[1]
            name == commented_images[1].filename
        IN  IF OverlayTexts(p) # <<>> THEN name = NameIn(OverlayTexts(p)[1])
            ELSE IF LowerTexts(p) # <<>> THEN name = NameIn(LowerTexts(p)[1])
            ELSE IF ShowsName(p.title) THEN name = NameIn(p.title)
            ELSE IF p.urlToken # ""
                 THEN /\ name # <<>>
                      /\ \E k \in 1..Len(name) : name[k] = p.urlToken
            ELSE IF ShowsName(p.imgSrc) THEN name = NameIn(p.imgSrc)
            ELSE name # <<>>

----------------------------------------------------------------------------
\* The browser session.

\* the positions of scrape_gallery_comments at which a call on the page is
\* still ahead: navigation, scrolling and queries, clicks and key presses of
\* the walk, the screenshots of lines 169 and 238
UsesPage ==
    pc \in {"goto", "scroll", "enumerate", "counted", "reveal", "extract",
            "record", "write", "advance", "except", "finalize", "handler"}

\* the ways a run leaves the try statement of line 72
NormalCompletion == log.scanComplete /\ ~log.scrapeError
EarlyReturn == log.enumerated /\ image_elements = <<>> /\ ~log.scrapeError
Unwound == log.scrapeError

\* C21: on every way out of the try statement (the walk completed, the
\* return for an empty gallery, an exception caught by the top-level
\* handler) the browser is closed exactly once, and it is open at every
\* position at which the page is still navigated, clicked or queried: only
\* the return follows the close.
C21_ClosedOnceAndLast ==
    /\ pc \in {"finally", "finally_empty", "returned"} \/ UsesPage
    /\ pc \in {"finally", "finally_empty", "returned"} =>
          NormalCompletion \/ EarlyReturn \/ Unwound
    /\ IF pc = "returned"
       THEN browser = "closed" /\ closes = 1
       ELSE browser = "open" /\ closes = 0

\* the walk was aborted at its second position, the handler has run and the
\* run has returned with the browser closed
C21_Witness ==
    /\ pc = "returned"
    /\ Unwound
    /\ ~log.scanComplete
    /\ i = 2
    /\ screenshots = <<"debug_error.png">>
    /\ browser = "closed"
    /\ closes = 1

----------------------------------------------------------------------------
\* The counts of a finished report.

\* the count the summary line at position t of the file gives
TotalAt(t) ==
    CHOOSE n \in 0..Len(image_elements) :
        file[t] = <<"Total: ", NumStr(n), " images with comments">>

\* the entries of the comment details: one "File:" line each
DetailEntries == {j \in 1..Len(file) : StartsWith(file[j], "File: ")}

\* the lines of the live-results section
ListedFilenames == ListAt(file, Len(Header))

\* C22: in a report _finalize_output_file has written its block to, the
\* count of the "Total" line is the number of filename lines of the
\* live-results section and the number of entries of the comment details.
C22_TotalMatchesListAndDetails ==
    ScraperReportFinished =>
        \E t \in SummaryAt(file) :
            /\ SummaryAt(file) = {t}
            /\ Cardinality(ListedFilenames) = TotalAt(t)
            /\ Cardinality(DetailEntries) = TotalAt(t)

----------------------------------------------------------------------------
\* An aborted walk.

\* a step of the run after an exception has left the walk for the top-level
\* handler: the handler itself, then the finally clause and the return
AfterAbort == i >= 1 /\ pc \in {"handler", "finally"} /\ log'.scrapeError

\* the results are in discovery order, at most one per position
InDiscoveryOrder(items) ==
    \A k \in 2..Len(items) : items[k - 1].image_index < items[k].image_index

\* C23: when an exception leaves the walk for the top-level handler with k
\* results recorded, the handler and the return change neither the results
\* nor the file, the run returns those k results in discovery order, and
\* the file is the header and their k filename lines.
C23_AbortKeepsResults ==
    [][AfterAbort =>
          /\ commented_images' = commented_images
          /\ file' = file
          /\ InDiscoveryOrder(commented_images)
          /\ file = Header \o Filenames(Len(commented_images))
          /\ pc' = "returned" => result' = commented_images]_vars

====
